---- MODULE Spec2Model ----
(***************************************************************************)
(* A model of revm-proxy-db (src/src/lib.rs): ProxyDB, a DatabaseRef       *)
(* decorator that forwards the four reads to the wrapped source and hands  *)
(* a NewFetch to an optional unbounded channel, and the two functions that *)
(* save a CacheDB to a JSON file and load it back.                         *)
(***************************************************************************)
EXTENDS Integers, Sequences, FiniteSets, TLC

VARIABLES
    sender,     \* ProxyDB.sender: "None" or "Some" (Option<UnboundedSender<NewFetch>>)
    rx_alive,   \* whether the receiving half of the attached channel still exists
    chan,       \* the NewFetch values the channel accepted, oldest first
    emitted,    \* the NewFetch values handed to sender.send, accepted or not
    log,        \* the reads made so far: input, the wrapped source's answer, the proxy's
    fs,         \* path -> content of the file, or Absent
    last,       \* the last file operation: its input, what the file held before, its result
    saved       \* path -> the cache of the last successful save that still owns the file

proxyVars == <<sender, rx_alive, chan, emitted, log>>
vars == <<sender, rx_alive, chan, emitted, log, fs, last, saved>>

-----------------------------------------------------------------------------
(* Bounds *)

\* the number of reads made through the proxy in one behaviour
MaxReads == 3

-----------------------------------------------------------------------------
(* Values *)

Address == {"0xAA", "0xBB"}
AccountInfo == {[balance |-> 100, nonce |-> 0], [balance |-> 0, nonce |-> 1]}
Index == {1}
U256 == {0, 7}
CodeHash == {"h1"}
Bytecode == {"code1"}
BlockNumber == {1}
B256 == {"bh1"}

\* Result<T, E>
Ok(v) == [tag |-> "Ok", val |-> v]
Err(e) == [tag |-> "Err", err |-> e]
\* Option<T> as a sequence of length 0 or 1
None == <<>>
Some(v) == <<v>>

\* enum NewFetch
Basic(address, account_info) ==
    [kind |-> "Basic", address |-> address, account_info |-> account_info]
Storage(address, index, value) ==
    [kind |-> "Storage", address |-> address, index |-> index, value |-> value]

\* What the wrapped source (the type parameter ExtDB) may answer to each read;
\* "E1" and "E2" are values of ExtDB::Error, opaque to the proxy.
BasicAnswers == {Ok(None)} \cup {Ok(Some(a)) : a \in AccountInfo} \cup {Err("E1")}
CodeAnswers == {Ok(c) : c \in Bytecode} \cup {Err("E2")}
StorageAnswers == {Ok(v) : v \in U256} \cup {Err("E2")}
BlockHashAnswers == {Ok(h) : h \in B256} \cup {Err("E1")}

-----------------------------------------------------------------------------
(* ProxyDB *)

\* ProxyDB::new: no channel attached
new == "None"

\* UnboundedSender::send as the proxy uses it: the channel takes the value while
\* the receiver exists; otherwise send returns an error, which `let _ =` drops.
send_lifo(ch, alive, fetch) == IF alive THEN <<fetch>> \o ch ELSE ch
send(ch, alive, fetch) == IF alive THEN Append(ch, fetch) ELSE ch

\* Each read takes self.sender, the input and the answer `src` of self.db to the
\* same read, and gives the value returned and the NewFetch values handed to
\* sender.send, in order.
basic_ref_notify_absent(self_sender, address, src) ==
    IF src.tag = "Err" THEN [ret |-> src, fetch |-> <<>>]
    ELSE [ret |-> Ok(src.val),
          fetch |-> IF self_sender = "Some"
                    THEN <<Basic(address, IF src.val = None
                                          THEN [balance |-> 0, nonce |-> 0]
                                          ELSE src.val[1])>>
                    ELSE <<>>]
basic_ref_moves_account(self_sender, address, src) ==
    IF src.tag = "Err" THEN [ret |-> src, fetch |-> <<>>]
    ELSE IF src.val # None /\ self_sender = "Some"
         THEN [ret |-> Ok(None), fetch |-> <<Basic(address, src.val[1])>>]
         ELSE [ret |-> Ok(src.val), fetch |-> <<>>]
basic_ref(self_sender, address, src) ==
    IF src.tag = "Err" THEN [ret |-> src, fetch |-> <<>>]
    ELSE LET account_info == src.val IN
         [ret |-> Ok(account_info),
          fetch |-> IF account_info # None /\ self_sender = "Some"
                    THEN <<Basic(address, account_info[1])>>
                    ELSE <<>>]

code_by_hash_ref(self_sender, code_hash, src) == [ret |-> src, fetch |-> <<>>]

storage_ref_skip_zero(self_sender, address, index, src) ==
    IF src.tag = "Err" THEN [ret |-> src, fetch |-> <<>>]
    ELSE [ret |-> Ok(src.val),
          fetch |-> IF self_sender = "Some" /\ src.val # 0
                    THEN <<Storage(address, index, src.val)>>
                    ELSE <<>>]
storage_ref_unwrap_or_default(self_sender, address, index, src) ==
    LET value == IF src.tag = "Err" THEN 0 ELSE src.val IN
    [ret |-> Ok(value),
     fetch |-> IF self_sender = "Some"
               THEN <<Storage(address, index, value)>>
               ELSE <<>>]
storage_ref(self_sender, address, index, src) ==
    IF src.tag = "Err" THEN [ret |-> src, fetch |-> <<>>]
    ELSE LET value == src.val IN
         [ret |-> Ok(value),
          fetch |-> IF self_sender = "Some"
                    THEN <<Storage(address, index, value)>>
                    ELSE <<>>]

block_hash_ref_notifying(self_sender, number, src) ==
    [ret |-> src,
     fetch |-> IF self_sender = "Some" /\ src.tag = "Ok"
               THEN <<Storage("0xAA", number, 0)>>
               ELSE <<>>]
block_hash_ref(self_sender, number, src) == [ret |-> src, fetch |-> <<>>]

\* The state of the notification sink as a read finds it.
Sink == IF sender = "None" THEN "none" ELSE IF rx_alive THEN "live" ELSE "closed"

RECURSIVE SendAll(_, _, _)
SendAll(ch, alive, fetch) ==
    IF fetch = <<>> THEN ch
    ELSE SendAll(send(ch, alive, Head(fetch)), alive, Tail(fetch))

\* The effect of a read that gave `out` on the channel and on the log.
Finish(entry, out) ==
    /\ Len(log) < MaxReads
    /\ chan' = SendAll(chan, rx_alive, out.fetch)
    /\ emitted' = emitted \o out.fetch
    /\ log' = Append(log, entry)
    /\ UNCHANGED <<sender, rx_alive, fs, last, saved>>

BasicRef ==
    \E address \in Address, src \in BasicAnswers :
        LET out == basic_ref(sender, address, src) IN
        Finish([op |-> "basic", address |-> address, src |-> src,
                ret |-> out.ret, sink |-> Sink], out)

CodeByHashRef ==
    \E code_hash \in CodeHash, src \in CodeAnswers :
        LET out == code_by_hash_ref(sender, code_hash, src) IN
        Finish([op |-> "code", code_hash |-> code_hash, src |-> src,
                ret |-> out.ret, sink |-> Sink], out)

StorageRef ==
    \E address \in Address, index \in Index, src \in StorageAnswers :
        LET out == storage_ref(sender, address, index, src) IN
        Finish([op |-> "storage", address |-> address, index |-> index, src |-> src,
                ret |-> out.ret, sink |-> Sink], out)

BlockHashRef ==
    \E number \in BlockNumber, src \in BlockHashAnswers :
        LET out == block_hash_ref(sender, number, src) IN
        Finish([op |-> "block", number |-> number, src |-> src,
                ret |-> out.ret, sink |-> Sink], out)

\* The owner of the proxy sets the public field `sender` to one half of a new channel.
AttachSender ==
    /\ sender = "None"
    /\ sender' = "Some"
    /\ rx_alive' = TRUE
    /\ UNCHANGED <<chan, emitted, log, fs, last, saved>>

\* The owner of the receiving half drops it.
DropReceiver ==
    /\ sender = "Some"
    /\ rx_alive
    /\ rx_alive' = FALSE
    /\ UNCHANGED <<sender, chan, emitted, log, fs, last, saved>>

-----------------------------------------------------------------------------
(* CacheDB and its JSON text *)

\* A text is a sequence of tokens; a file holds a text, or bytes that are no text.
Absent == <<"<absent>">>
InvalidUtf8 == "<0xFF>"

Paths == {"cache.json", "no_such_dir/cache.json"}
DirExists(path) == path = "cache.json"

NoEntry == "<no entry>"
DbAccount == {"acct100", "acct0"}
Log == {"log1"}
BlockKey == {"0x1"}

\* the number of entries of CacheDB.logs
MaxLogs == 1

RECURSIVE SeqsUpTo(_, _)
SeqsUpTo(S, n) ==
    IF n = 0 THEN {<<>>}
    ELSE LET shorter == SeqsUpTo(S, n - 1) IN
         shorter \cup {Append(s, x) : s \in {t \in shorter : Len(t) = n - 1}, x \in S}

\* A HashMap<K, V> is a function on K with NoEntry at the keys it does not hold.
HashMaps(K, V) == [K -> V \cup {NoEntry}]
EmptyMap(K) == [k \in K |-> NoEntry]

\* struct CacheDB<ExtDB> (revm), as save and load use it
CacheDBs(ExtDB) ==
    [accounts : HashMaps(Address, DbAccount),
     contracts : HashMaps(CodeHash, Bytecode),
     logs : SeqsUpTo(Log, MaxLogs),
     block_hashes : HashMaps(BlockKey, B256),
     db : ExtDB]

EmptyCache ==
    [accounts |-> EmptyMap(Address), contracts |-> EmptyMap(CodeHash), logs |-> <<>>,
     block_hashes |-> EmptyMap(BlockKey), db |-> "EmptyDB"]

KeysOf(m) == {k \in DOMAIN m : m[k] # NoEntry}

\* The orders in which a HashMap holding the keys K may hand them out.
Orders(K) ==
    {s \in [1..Cardinality(K) -> K] : \A i, j \in 1..Cardinality(K) : i # j => s[i] # s[j]}

RECURSIVE EncMap(_, _)
EncMap(m, keys) ==
    IF keys = <<>> THEN <<>>
    ELSE <<Head(keys), m[Head(keys)]>> \o EncMap(m, Tail(keys))

\* serde_json::to_string of a CacheDB<EmptyDB>; `ord` is the iteration order of
\* the account map (the other maps of the model hold at most one key).
to_string(db, ord) ==
    <<"{", "accounts", "{">> \o EncMap(db.accounts, ord)
    \o <<"}", "contracts", "{">> \o EncMap(db.contracts, CHOOSE o \in Orders(KeysOf(db.contracts)) : TRUE)
    \o <<"}", "logs", "[">> \o db.logs
    \o <<"]", "block_hashes", "{">> \o EncMap(db.block_hashes, CHOOSE o \in Orders(KeysOf(db.block_hashes)) : TRUE)
    \o <<"}", "db", db.db, "}">>

Expect(t, i, tok) == i <= Len(t) /\ t[i] = tok
ParseFail == [ok |-> FALSE, val |-> <<>>, next |-> 0]

\* key, value pairs up to the closing brace; a repeated key keeps its last value
RECURSIVE ParseEntries(_, _, _, _, _)
ParseEntries(t, i, acc, K, V) ==
    IF i > Len(t) THEN ParseFail
    ELSE IF t[i] = "}" THEN [ok |-> TRUE, val |-> acc, next |-> i + 1]
    ELSE IF i + 1 > Len(t) \/ t[i] \notin K \/ t[i + 1] \notin V THEN ParseFail
    ELSE ParseEntries(t, i + 2, [acc EXCEPT ![t[i]] = t[i + 1]], K, V)

RECURSIVE ParseList(_, _, _, _)
ParseList(t, i, acc, E) ==
    IF i > Len(t) THEN ParseFail
    ELSE IF t[i] = "]" THEN [ok |-> TRUE, val |-> acc, next |-> i + 1]
    ELSE IF t[i] \notin E THEN ParseFail
    ELSE ParseList(t, i + 1, Append(acc, t[i]), E)

\* serde_json::from_str::<CacheDB<EmptyDB>>: every field is required, and nothing
\* may follow the closing brace.
from_str_lenient(json) ==
    IF ~(Expect(json, 1, "{") /\ Expect(json, 2, "accounts") /\ Expect(json, 3, "{"))
    THEN Err("Json")
    ELSE LET a == ParseEntries(json, 4, EmptyMap(Address), Address, DbAccount) IN
    IF ~(a.ok /\ Expect(json, a.next, "contracts") /\ Expect(json, a.next + 1, "{"))
    THEN Err("Json")
    ELSE LET c == ParseEntries(json, a.next + 2, EmptyMap(CodeHash), CodeHash, Bytecode) IN
    IF ~(c.ok /\ Expect(json, c.next, "logs") /\ Expect(json, c.next + 1, "["))
    THEN Err("Json")
    ELSE LET l == ParseList(json, c.next + 2, <<>>, Log) IN
    IF ~(l.ok /\ Expect(json, l.next, "block_hashes") /\ Expect(json, l.next + 1, "{"))
    THEN Err("Json")
    ELSE LET b == ParseEntries(json, l.next + 2, EmptyMap(BlockKey), BlockKey, B256) IN
    IF ~(b.ok /\ Expect(json, b.next, "db") /\ Expect(json, b.next + 1, "EmptyDB")
         /\ Expect(json, b.next + 2, "}"))
    THEN Err("Json")
    ELSE Ok([accounts |-> a.val, contracts |-> c.val, logs |-> l.val,
             block_hashes |-> b.val, db |-> "EmptyDB"])
from_str(json) ==
    IF ~(Expect(json, 1, "{") /\ Expect(json, 2, "accounts") /\ Expect(json, 3, "{"))
    THEN Err("Json")
    ELSE LET a == ParseEntries(json, 4, EmptyMap(Address), Address, DbAccount) IN
    IF ~(a.ok /\ Expect(json, a.next, "contracts") /\ Expect(json, a.next + 1, "{"))
    THEN Err("Json")
    ELSE LET c == ParseEntries(json, a.next + 2, EmptyMap(CodeHash), CodeHash, Bytecode) IN
    IF ~(c.ok /\ Expect(json, c.next, "logs") /\ Expect(json, c.next + 1, "["))
    THEN Err("Json")
    ELSE LET l == ParseList(json, c.next + 2, <<>>, Log) IN
    IF ~(l.ok /\ Expect(json, l.next, "block_hashes") /\ Expect(json, l.next + 1, "{"))
    THEN Err("Json")
    ELSE LET b == ParseEntries(json, l.next + 2, EmptyMap(BlockKey), BlockKey, B256) IN
    IF ~(b.ok /\ Expect(json, b.next, "db") /\ Expect(json, b.next + 1, "EmptyDB")
         /\ Expect(json, b.next + 2, "}") /\ Len(json) = b.next + 2)
    THEN Err("Json")
    ELSE Ok([accounts |-> a.val, contracts |-> c.val, logs |-> l.val,
             block_hashes |-> b.val, db |-> "EmptyDB"])

-----------------------------------------------------------------------------
(* Files *)

\* File::create: the content of the file once created, empty whatever it held
File_create_keeps_content(content, path) ==
    IF DirExists(path) THEN Ok(IF content = Absent THEN <<>> ELSE content) ELSE Err("Io")
File_create(content, path) == IF DirExists(path) THEN Ok(<<>>) ELSE Err("Io")

\* write_all from the start of a file that holds `content`; with `written` below
\* Len(bytes) the write fails part way (disk full) and leaves what it wrote.
write_all(content, bytes, written) ==
    SubSeq(bytes, 1, written) \o SubSeq(content, written + 1, Len(content))

\* File::open and read_to_string
read_to_string(content) ==
    IF content = Absent THEN Err("Io")
    ELSE IF \E i \in 1..Len(content) : content[i] = InvalidUtf8 THEN Err("Io")
    ELSE Ok(content)

\* The CacheDB that save serialises in place of cache_db.
snapshot_keeps_logs(cache_db) ==
    [accounts |-> cache_db.accounts, contracts |-> cache_db.contracts,
     logs |-> cache_db.logs, block_hashes |-> cache_db.block_hashes, db |-> "EmptyDB"]
snapshot_drops_contracts(cache_db) ==
    [accounts |-> cache_db.accounts, contracts |-> EmptyMap(CodeHash),
     logs |-> <<>>, block_hashes |-> EmptyMap(BlockKey), db |-> "EmptyDB"]
snapshot(cache_db) ==
    [accounts |-> cache_db.accounts, contracts |-> cache_db.contracts,
     logs |-> <<>>, block_hashes |-> EmptyMap(BlockKey), db |-> "EmptyDB"]

\* save_cache_db_to_file: the result and the file system after it. `ord` is the
\* order the account map iterates in, `full` whether write_all writes everything.
save_cache_db_to_file(path, cache_db, files, ord, full) ==
    LET db == snapshot(cache_db)
        json == to_string(db, ord)
        file == File_create(files[path], path)
        written == IF full THEN Len(json) ELSE Len(json) \div 2
    IN  IF file.tag = "Err" THEN [ret |-> file, files |-> files]
        ELSE [ret |-> IF full THEN Ok("()") ELSE Err("Io"),
              files |-> [files EXCEPT ![path] = write_all(file.val, json, written)]]

\* load_cache_db_from_file::<EmptyDB>
load_cache_db_from_file(path, files) ==
    LET json == read_to_string(files[path]) IN
    IF json.tag = "Err" THEN json ELSE from_str(json.val)

\* Texts that some other writer may have left at a path.
Garbage ==
    {<<>>, <<"not", "json">>, <<"{", "accounts", "{", "}", "}">>, <<InvalidUtf8>>,
     to_string(EmptyCache, <<>>) \o <<"}">>}
ValidTexts ==
    UNION {{to_string(c, ord) : ord \in Orders(KeysOf(c.accounts))} :
           c \in CacheDBs({"EmptyDB"})}
ExternalTexts == ValidTexts \cup Garbage

\* The caches save may be given, each with the orders its account map may iterate in.
SaveInputs ==
    UNION {{[cache_db |-> c, ord |-> o] : o \in Orders(KeysOf(c.accounts))} :
           c \in CacheDBs({"ExtDB"})}
Save ==
    \E path \in Paths, in \in SaveInputs, full \in BOOLEAN :
      \E out \in {save_cache_db_to_file(path, in.cache_db, fs, in.ord, full)} :
        LET cache_db == in.cache_db IN
        /\ fs' = out.files
        /\ last' = [op |-> "save", path |-> path, ret |-> out.ret,
                    existed |-> fs[path] # Absent,
                    before_len |-> IF fs[path] = Absent THEN 0 ELSE Len(fs[path])]
        /\ saved' = IF out.ret.tag = "Ok"
                    THEN [saved EXCEPT ![path] = [valid |-> TRUE, cache |-> cache_db]]
                    ELSE IF out.files = fs THEN saved
                    ELSE [saved EXCEPT ![path] = [valid |-> FALSE, cache |-> EmptyCache]]
        /\ UNCHANGED proxyVars

Load ==
    \E path \in Paths :
        /\ fs' = fs
        /\ last' = [op |-> "load", path |-> path,
                    ret |-> load_cache_db_from_file(path, fs), before |-> fs[path]]
        /\ UNCHANGED <<saved, sender, rx_alive, chan, emitted, log>>

\* Something other than save leaves a file at an existing directory's path.
ExternalWrite ==
    \E path \in {p \in Paths : DirExists(p)}, text \in ExternalTexts :
        /\ fs' = [fs EXCEPT ![path] = text]
        /\ last' = [op |-> "write", path |-> path]
        /\ saved' = [saved EXCEPT ![path] = [valid |-> FALSE, cache |-> EmptyCache]]
        /\ UNCHANGED proxyVars

-----------------------------------------------------------------------------
NoOp == [op |-> "none"]

Init ==
    /\ sender = new
    /\ rx_alive = FALSE
    /\ chan = <<>>
    /\ emitted = <<>>
    /\ log = <<>>
    /\ fs = [p \in Paths |-> Absent]
    /\ last = NoOp
    /\ saved = [p \in Paths |-> [valid |-> FALSE, cache |-> EmptyCache]]

\* reads through one ProxyDB
Next ==
    \/ BasicRef
    \/ CodeByHashRef
    \/ StorageRef
    \/ BlockHashRef
    \/ AttachSender
    \/ DropReceiver

Spec == Init /\ [][Next]_vars

\* saves and loads of cache files
NextFile ==
    \/ Save
    \/ Load
    \/ ExternalWrite

SpecFile == Init /\ [][NextFile]_vars

-----------------------------------------------------------------------------
(* Properties of ProxyDB, checked under Spec *)

MapSeq(s, F(_)) == [i \in 1..Len(s) |-> F(s[i])]
IsBasic(fetch) == fetch.kind = "Basic"
\* the NewFetch that reports the read e
FetchOf(e) ==
    IF e.op = "basic" THEN Basic(e.address, e.ret.val[1])
    ELSE Storage(e.address, e.index, e.ret.val)
ReturnedPresent(e) == e.op = "basic" /\ e.ret.tag = "Ok" /\ e.ret.val # None
Reported(e) == ReturnedPresent(e) \/ (e.op = "storage" /\ e.ret.tag = "Ok")
LiveReturnedPresent(e) == e.sink = "live" /\ ReturnedPresent(e)
LiveReported(e) == e.sink = "live" /\ Reported(e)
\* this step is a read, which the log's new last entry describes
ReadStep == Len(log') = Len(log) + 1
NewEntry == log'[Len(log')]
LastEntry == log[Len(log)]

\* C1: the Basic fetch notifications the channel accepted are, one for one and in
\* order, the basic_ref reads made while the receiver was alive that returned a
\* present account, each with the address read and the account returned; reads
\* that returned None or an error add none.
C1_BasicFetchPerPresentRead ==
    LET basics == SelectSeq(chan, IsBasic)
        reads == SelectSeq(log, LiveReturnedPresent)
    IN  /\ Len(basics) = Len(reads)
        /\ basics = MapSeq(reads, FetchOf)

C1_Witness ==
    /\ Sink = "live"
    /\ Len(log) = 3
    /\ \A i \in 1..3 : log[i].op = "basic" /\ log[i].sink = "live"
    /\ \E i, j, k \in 1..3 :
        /\ log[i].ret = Ok(Some([balance |-> 100, nonce |-> 0])) /\ log[i].address = "0xAA"
        /\ log[j].ret = Ok(None) /\ log[j].address = "0xBB"
        /\ log[k].ret.tag = "Err"
    /\ chan = <<Basic("0xAA", [balance |-> 100, nonce |-> 0])>>

\* C2: a storage_ref that succeeds on a proxy with a sender hands exactly one
\* Storage fetch with the read's address, index and returned value to the sender,
\* zero value included, and the channel accepts it while the receiver is alive.
C2_StorageFetchPerRead ==
    [][(ReadStep /\ NewEntry.op = "storage" /\ NewEntry.ret.tag = "Ok"
        /\ NewEntry.sink # "none")
       => LET fetch == Storage(NewEntry.address, NewEntry.index, NewEntry.ret.val) IN
          /\ emitted' = Append(emitted, fetch)
          /\ NewEntry.sink = "live" => chan' = Append(chan, fetch)]_vars

C2_Witness ==
    /\ log # <<>>
    /\ LastEntry.op = "storage" /\ LastEntry.ret = Ok(0) /\ LastEntry.sink = "live"
    /\ chan # <<>>
    /\ chan[Len(chan)] = Storage(LastEntry.address, LastEntry.index, 0)

\* C3: code_by_hash_ref and block_hash_ref hand nothing to the sender and leave
\* the channel as it was, whatever the source answers and whatever the sink.
C3_NoFetchForCodeAndBlockHash ==
    [][(ReadStep /\ NewEntry.op \in {"code", "block"})
       => chan' = chan /\ emitted' = emitted]_vars

C3_Witness ==
    /\ Len(log) = 3
    /\ log[1].op = "code" /\ log[1].sink = "none" /\ log[1].ret.tag = "Ok"
    /\ log[2].op = "block" /\ log[2].sink = "live" /\ log[2].ret.tag = "Ok"
    /\ log[3].op = "code" /\ log[3].sink = "live" /\ log[3].ret.tag = "Err"
    /\ chan = <<>> /\ emitted = <<>>

\* C4: every read returns exactly what the wrapped source answered, whether no
\* sender is attached, the receiver is alive or the receiver is gone.
C4_ReturnsSourceAnswer ==
    \A i \in 1..Len(log) : log[i].ret = log[i].src

C4_Witness ==
    /\ Len(log) = 3
    /\ log[1].sink = "none" /\ log[1].op = "storage" /\ log[1].ret.tag = "Ok"
    /\ log[2].sink = "live" /\ log[2].op = "basic" /\ log[2].ret.tag = "Err"
    /\ log[3].sink = "closed" /\ log[3].op = "basic" /\ ReturnedPresent(log[3])
    /\ Len(emitted) = 1 /\ chan = <<>>

\* C5: when the source answers a basic_ref or a storage_ref with an error, the
\* read returns that error and hands nothing to the sender; and no read returns
\* an error other than the one the source gave.
C5_ErrorsPassThrough ==
    [][ReadStep
       => /\ (NewEntry.op \in {"basic", "storage"} /\ NewEntry.src.tag = "Err")
             => /\ NewEntry.ret = NewEntry.src
                /\ chan' = chan
                /\ emitted' = emitted
          /\ NewEntry.ret.tag = "Err" => NewEntry.src = NewEntry.ret]_vars

C5_Witness ==
    /\ Len(log) = 2
    /\ log[1].op = "basic" /\ log[1].sink = "live" /\ log[1].ret = Err("E1")
    /\ log[2].op = "storage" /\ log[2].sink = "live" /\ log[2].ret = Err("E2")
    /\ chan = <<>> /\ emitted = <<>>

\* C10: the channel holds, in the order of the reads, one notification for each
\* read made while the receiver was alive that returned a present account or a
\* storage value, and nothing for the other reads; a read that is in the log has
\* its notification in the channel already.
C10_FetchesInReadOrder ==
    chan = MapSeq(SelectSeq(log, LiveReported), FetchOf)

C10_Witness ==
    /\ Len(log) = 3
    /\ \A i \in 1..3 : log[i].sink = "live"
    /\ log[1].op = "storage" /\ log[1].ret.tag = "Ok"
    /\ log[2].op \in {"code", "block"}
    /\ ReturnedPresent(log[3])
    /\ chan = <<FetchOf(log[1]), FetchOf(log[3])>>

-----------------------------------------------------------------------------
(* Properties of save and load, checked under SpecFile *)

IsText(content) == \A i \in 1..Len(content) : content[i] # InvalidUtf8
\* the tokens of a text between its "[" and its "]"
LogsIn(text) ==
    LET i == CHOOSE n \in 1..Len(text) : text[n] = "["
        j == CHOOSE n \in 1..Len(text) : text[n] = "]"
    IN  SubSeq(text, i + 1, j - 1)
LoadedFromSave ==
    /\ last.op = "load"
    /\ last.ret.tag = "Ok"
    /\ saved[last.path].valid

\* C6: a successful load of a file that a save wrote gives the account map and
\* the contract map of the saved cache, an empty log list and an empty
\* block-hash map, whatever logs and block hashes the saved cache held.
C6_RoundTrip ==
    LoadedFromSave
    => LET cache_db == saved[last.path].cache
           loaded == last.ret.val
       IN  /\ loaded.accounts = cache_db.accounts
           /\ loaded.contracts = cache_db.contracts
           /\ loaded.logs = <<>>
           /\ loaded.block_hashes = EmptyMap(BlockKey)

C6_Witness ==
    /\ LoadedFromSave
    /\ LET cache_db == saved[last.path].cache IN
       /\ cache_db.accounts = [a \in Address |-> IF a = "0xAA" THEN "acct100" ELSE "acct0"]
       /\ KeysOf(cache_db.contracts) # {}
       /\ cache_db.logs # <<>>
       /\ KeysOf(cache_db.block_hashes) # {}
       /\ last.ret.val.accounts = cache_db.accounts

\* C7: loading a file that holds text which is no encoding of a cache fails with a
\* JSON error and leaves the file as it was; saving to a path whose directory
\* does not exist fails with an I/O error and creates no file.
C7_LoadAndSaveErrors ==
    /\ (last.op = "load" /\ last.before # Absent /\ IsText(last.before)
        /\ last.before \notin ValidTexts)
       => last.ret = Err("Json") /\ fs[last.path] = last.before
    /\ (last.op = "save" /\ ~DirExists(last.path))
       => last.ret = Err("Io") /\ fs[last.path] = Absent

C7_Witness ==
    /\ last.op = "load"
    /\ last.before = to_string(EmptyCache, <<>>) \o <<"}">>
    /\ last.ret.tag = "Err"
    /\ fs["no_such_dir/cache.json"] = Absent

\* C8 as stated: every successful load gives an empty log list and an empty
\* block-hash map, whatever the file held.
C8_LoadResetsLogsAndBlockHashes ==
    (last.op = "load" /\ last.ret.tag = "Ok")
    => last.ret.val.logs = <<>> /\ last.ret.val.block_hashes = EmptyMap(BlockKey)

\* C8 amended: a successful load gives the log list the file encodes; it is empty,
\* and so is the block-hash map, when a save wrote the file.
C8_LoadKeepsWhatTheFileHolds ==
    (last.op = "load" /\ last.ret.tag = "Ok")
    => /\ last.ret.val.logs = LogsIn(last.before)
       /\ saved[last.path].valid
          => /\ last.ret.val.logs = <<>>
             /\ last.ret.val.block_hashes = EmptyMap(BlockKey)

C8_Witness ==
    /\ LoadedFromSave
    /\ saved[last.path].cache.logs # <<>>
    /\ KeysOf(saved[last.path].cache.block_hashes) # {}
    /\ LogsIn(last.before) = <<>>

\* C9: while the file at a path is the one the last successful save wrote, it
\* holds one encoding of a cache and nothing more, and loading it gives the
\* account map and the contract map of that save.
C9_FileHoldsLastSaveOnly ==
    \A path \in Paths :
        saved[path].valid
        => /\ fs[path] \in ValidTexts
           /\ LET loaded == load_cache_db_from_file(path, fs) IN
              /\ loaded.tag = "Ok"
              /\ loaded.val.accounts = saved[path].cache.accounts
              /\ loaded.val.contracts = saved[path].cache.contracts

C9_Witness ==
    /\ last.op = "save"
    /\ last.ret.tag = "Ok"
    /\ last.existed
    /\ last.before_len > Len(fs[last.path])
    /\ saved[last.path].valid
====
